---- MODULE Spec2Model ----
(***************************************************************************)
(* Session lifecycle and long-poll synchronisation loop of openwechat's   *)
(* Bot (src/bot.go).                                                       *)
(*                                                                         *)
(* Threads of control:                                                     *)
(*   - the caller thread ("main"), which runs HandleLogin/WebInit, Logout  *)
(*     and Exit one after the other;                                       *)
(*   - the thread of control that sits in Block;                           *)
(*   - one goroutine per successful WebInit (`go b.once.Do(...)`), of      *)
(*     which the one admitted by sync.Once runs the sync loop;             *)
(*   - the owner of the parent context, who may cancel it.                 *)
(* Every call into the transport (Caller) is a suspension point: the call  *)
(* is issued in one step and returns in a later one.                       *)
(*                                                                         *)
(* Spec and FairSpec are the lifecycle and the loop; DumpSpec is the       *)
(* hot-reload snapshot (DumpTo, reload) taken from any session fields.     *)
(***************************************************************************)
EXTENDS Integers, FiniteSets, Sequences, TLC

\* ------------------------------------------------------------------ bounds
MaxLogins == 2      \* successful WebInit calls (goroutines spawned) per Bot
MaxCallbacks == 2   \* direct Exit calls stop once LogoutCallBack has run this often
MaxKey == 2         \* distinct SyncKey values the service hands out
MaxBatch == 2       \* messages in one WebWxSync batch
MaxVal == 2         \* distinct values of each opaque session field

G == 1..MaxLogins
Keys == 1..MaxKey

\* --------------------------------------------------------------- error values
NilErr == "nil"
TransportErr == "transport"         \* a plain (non-Ret) error
NotLoginErr == "user not login"     \* errors.New("user not login")
failedLoginWarn == "failedLoginWarn"
failedLoginCheck == "failedLoginCheck"
cookieInvalid == "cookieInvalid"
otherRet == "otherRet"              \* any Ret the default handler does not name

\* values of type Ret (errors.As(err, &ret) succeeds exactly for these)
Ret == {failedLoginWarn, failedLoginCheck, cookieInvalid, otherRet}

\* SyncCheckResponse values the transport may hand back
SuccessCode == "0"
NormalSelector == "0"
NewMsgSelector == "2"
NoResp == [RetCode |-> "-", Selector |-> "-"]
Responses ==
    {[RetCode |-> SuccessCode, Selector |-> s] : s \in {NormalSelector, NewMsgSelector}}
    \cup {[RetCode |-> c, Selector |-> NormalSelector] : c \in Ret}

\* errors Caller.SyncCheck / Caller.WebWxSync may return
PollErrs == {TransportErr}
FetchErrs == {TransportErr, cookieInvalid}

\* Opaque field values; 0 is the zero value ("" or a nil pointer)
Vals == 0..MaxVal
NoRequest == [Info |-> 0, DeviceID |-> 0]       \* Storage.Request is nil
\* BaseRequest: Uin, Sid and Skey are copied from one LoginInfo
Requests == {NoRequest} \cup [Info : 1..MaxVal, DeviceID : 1..MaxVal]
\* b.hotReloadStorage: whether the field is set, and the JSON values the
\* storage holds (the caller empties the storage before a dump is written)
NoStorage == [configured |-> FALSE, data |-> <<>>]
EmptyStorage == [configured |-> TRUE, data |-> <<>>]
\* what GetLoginInfo and GetRandomDeviceId hand to HandleLogin; the session
\* lifecycle does not read these values, so one of each is explored there
HandshakeInfos == {1}
RandomDeviceIds == {1}

\* The hook fields a Bot is configured with before login: NewBot leaves them
\* all nil, an application sets the ones it wants. The hooks do not read one
\* another, so each is modelled absent and present, not every combination.
Configs ==
    {[MessageHandler |-> h, SyncCheckCallback |-> h, LogoutCallBack |-> h] : h \in BOOLEAN}

VARIABLES
    \* ---- Bot fields
    self,                \* b.self # nil
    ctxDone,             \* b.context is done (b.cancel() or the parent's cancel)
    err,                 \* b.err
    once,                \* b.once: "idle" | "running" | "done"
    MessageErrorHandler, \* "nil" | "default"
    MessageHandler,      \* b.MessageHandler # nil
    SyncCheckCallback,   \* b.SyncCheckCallback # nil
    LogoutCallBack,      \* b.LogoutCallBack # nil
    LoginInfo,           \* b.Storage.LoginInfo (0: nil)
    Request,             \* b.Storage.Request
    deviceId,            \* b.deviceId (0: "")
    uuid,                \* b.uuid
    Domain,              \* b.Caller.Client.Domain
    Jar,                 \* b.Caller.Client's cookie jar
    hotReloadStorage,    \* b.hotReloadStorage: NoStorage, or the bytes it holds
    SyncKey,             \* b.Storage.Response.SyncKey (0: Storage.Response is nil)
    \* ---- caller thread
    mainPc,              \* "idle" | "WebInit" | "WebWxStatusNotify" | "Logout"
    ret,                 \* the error the caller thread's last finished call returned
    \* ---- Block
    blockPc,             \* "idle" | "waiting" | "nil" | "err"
    \* ---- goroutines started by WebInit
    spawned,             \* how many have been started
    pc,                  \* pc[g]
    lerr,                \* the goroutine's local err
    resp,                \* the goroutine's SyncCheckResponse
    batch,               \* messages of the current batch not yet handled
    handled,             \* messages handed to MessageHandler in this iteration
    hbSeen,              \* responses handed to SyncCheckCallback in this iteration
    \* ---- observation (history) variables
    cbCount,             \* LogoutCallBack invocations
    exitBy,              \* who fired the cancellation signal first
    loginCompleted,      \* some WebInit has returned nil
    lastFetch,           \* SyncKey of the latest successful WebWxSync (0: none)
    lastKey,             \* SyncKey of the latest successful WebInit or WebWxSync
    atDump,              \* the session fields as they were at the latest DumpTo
    reloaded             \* reload has decoded the latest dump; no field assigned since

snapVars == <<Request, deviceId, uuid, Domain, Jar, hotReloadStorage, atDump, reloaded>>
botVars == <<self, ctxDone, err, once, MessageErrorHandler, LoginInfo, SyncKey, snapVars>>
cfgVars == <<MessageHandler, SyncCheckCallback, LogoutCallBack>>
mainVars == <<mainPc, ret>>
loopVars == <<spawned, pc, lerr, resp, batch, handled, hbSeen>>
histVars == <<cbCount, exitBy, loginCompleted, lastFetch, lastKey>>
vars == <<botVars, cfgVars, mainVars, blockPc, loopVars, histVars>>

\* pcs at which a goroutine is inside the function handed to once.Do
LoopPcs == {"outer", "alive", "SyncCheck", "heartbeat", "WebWxSync",
            "dispatch", "classify", "Logout", "seterr"}

\* ---------------------------------------------------------------- helpers
\* Bot.Alive
Alive_IgnoresContext == self
Alive == self /\ ~ctxDone

\* SyncCheckResponse.Success / NorMal / Err
Success(r) == r.RetCode = SuccessCode
NorMal(r) == Success(r) /\ r.Selector = NormalSelector
RespErr(r) == IF Success(r) THEN NilErr ELSE r.RetCode

\* the decision of defaultSyncCheckErrHandler: TRUE when it returns false (stop)
HandlerStops_AnyRet(e) == e \in Ret
HandlerStops_DropsWarn(e) == e \in Ret /\ e \in {failedLoginCheck, cookieInvalid}
HandlerStops(e) == e \in Ret /\ e \in {failedLoginCheck, cookieInvalid, failedLoginWarn}

\* sync.Once.Do: whether this call runs the function
OnceAdmits_Always(o) == TRUE
OnceAdmits(o) == o = "idle"

\* syncMessage's store into Storage.Response.SyncKey
StoreSyncKey_Keep(old, new) == old
StoreSyncKey(old, new) == new

\* the calls syncCheck makes to SyncCheckCallback for the response r
CallbackCalls_OnSuccess(cb, r) == IF cb /\ Success(r) THEN <<r>> ELSE <<>>
CallbackCalls(cb, r) == IF cb THEN <<r>> ELSE <<>>

\* resp.AddMsgList of a WebWxSync that returns n messages, in arrival order
AddMsgList(n) == [i \in 1..n |-> i]

\* one pass of the body of `for _, message := range messages`
Handle_Twice(done, message) == done \o <<message, message>>
Handle(done, message) == Append(done, message)

\* Bot.Exit, called by `by`
Exit(by) ==
    /\ cbCount' = IF LogoutCallBack THEN cbCount + 1 ELSE cbCount
    /\ self' = FALSE
    /\ ctxDone' = TRUE
    /\ exitBy' = IF ctxDone THEN exitBy ELSE by

\* ---------------------------------------------------------------- snapshot
\* HotReloadStorageItem as DumpTo fills it
HotReloadStorageItem(request, jar, info, domain, id) ==
    [BaseRequest |-> request, Jar |-> jar, LoginInfo |-> info,
     WechatDomain |-> domain, UUID |-> id]

\* json.Encoder.Encode of an item: one object, a member per exported field
Encode(item) ==
    << <<"BaseRequest", item.BaseRequest>>, <<"Jar", item.Jar>>,
       <<"LoginInfo", item.LoginInfo>>, <<"WechatDomain", item.WechatDomain>>,
       <<"UUID", item.UUID>> >>

\* the value of member `key` in a JSON object; `zero` when the object has none
Member(object, key, zero) ==
    LET at == {i \in DOMAIN object : object[i][1] = key}
    IN IF at = {} THEN zero
       ELSE object[CHOOSE i \in at : \A j \in at : j <= i][2]

\* json.Decoder.Decode into a zero HotReloadStorageItem
Decode(object) ==
    [BaseRequest |-> Member(object, "BaseRequest", NoRequest),
     Jar |-> Member(object, "Jar", 0),
     LoginInfo |-> Member(object, "LoginInfo", 0),
     WechatDomain |-> Member(object, "WechatDomain", 0),
     UUID |-> Member(object, "UUID", 0)]

\* Bot.DumpTo: the bytes it hands to the writer
DumpTo_SwapsDomainAndUUID(request, jar, info, domain, id) ==
    Encode(HotReloadStorageItem(request, jar, info, id, domain))
DumpTo(request, jar, info, domain, id) ==
    Encode(HotReloadStorageItem(request, jar, info, domain, id))

\* the session fields a dump is compared with later
Fields(request, info, domain, id, key) ==
    [Request |-> request, LoginInfo |-> info, Domain |-> domain, uuid |-> id,
     SyncKey |-> key]
NoDump == Fields(NoRequest, 0, 0, 0, 0)

\* NewBot, then the application's hook assignments
InitLifecycle ==
    /\ self = FALSE /\ ctxDone = FALSE /\ err = NilErr /\ once = "idle"
    /\ MessageErrorHandler = "nil"
    /\ \E c \in Configs :
          /\ MessageHandler = c.MessageHandler
          /\ SyncCheckCallback = c.SyncCheckCallback
          /\ LogoutCallBack = c.LogoutCallBack
    /\ mainPc = "idle" /\ ret = NilErr
    /\ blockPc = "idle"
    /\ spawned = 0
    /\ pc = [g \in G |-> "none"]
    /\ lerr = [g \in G |-> NilErr]
    /\ resp = [g \in G |-> NoResp]
    /\ batch = [g \in G |-> <<>>]
    /\ handled = [g \in G |-> <<>>]
    /\ hbSeen = [g \in G |-> <<>>]
    /\ cbCount = 0 /\ exitBy = "none" /\ loginCompleted = FALSE
    /\ lastFetch = 0 /\ lastKey = 0
    /\ atDump = NoDump /\ reloaded = FALSE

\* a Bot for scan login: no hot-reload storage, and the session fields of
\* Storage and Caller at their zero values
Init ==
    /\ InitLifecycle
    /\ LoginInfo = 0 /\ SyncKey = 0
    /\ Request = NoRequest /\ deviceId = 0 /\ uuid = 0 /\ Domain = 0 /\ Jar = 0
    /\ hotReloadStorage = NoStorage

\* ------------------------------------------------------------ caller thread
\* HandleLogin up to its call of WebInit, and WebInit up to Caller.WebInit
HandleLogin ==
    /\ mainPc = "idle" /\ spawned < MaxLogins
    /\ \/ /\ ret' = TransportErr     \* GetLoginInfo failed
          /\ UNCHANGED <<LoginInfo, Request, deviceId, hotReloadStorage, atDump,
                         reloaded, mainPc>>
       \/ \E info \in HandshakeInfos, random \in RandomDeviceIds :
          LET dev == IF deviceId = 0 THEN random ELSE deviceId
              request == [Info |-> info, DeviceID |-> dev]
          IN
          /\ LoginInfo' = info
          /\ deviceId' = dev
          /\ Request' = request
          /\ reloaded' = FALSE
          /\ IF hotReloadStorage.configured
                THEN \/ /\ ret' = TransportErr     \* DumpHotReloadStorage failed
                        /\ UNCHANGED <<hotReloadStorage, atDump, mainPc>>
                     \/ /\ hotReloadStorage' =
                               [hotReloadStorage EXCEPT !.data =
                                   <<DumpTo(request, Jar, info, Domain, uuid)>>]
                        /\ atDump' = Fields(request, info, Domain, uuid, SyncKey)
                        /\ mainPc' = "WebInit"
                        /\ UNCHANGED ret
                ELSE /\ mainPc' = "WebInit"
                     /\ UNCHANGED <<ret, hotReloadStorage, atDump>>
    /\ UNCHANGED <<self, ctxDone, err, once, MessageErrorHandler, SyncKey, uuid, Domain,
                   Jar, cfgVars, blockPc, loopVars, histVars>>

\* Caller.WebInit returns
WebInitReturn ==
    /\ mainPc = "WebInit"
    /\ \/ /\ ret' = TransportErr
          /\ mainPc' = "idle"
          /\ UNCHANGED <<self, SyncKey, lastKey>>
       \/ \E k \in Keys :
          /\ self' = TRUE
          /\ SyncKey' = k
          /\ lastKey' = k
          /\ mainPc' = "WebWxStatusNotify"
          /\ UNCHANGED ret
    /\ UNCHANGED <<ctxDone, err, once, MessageErrorHandler, LoginInfo, snapVars, cfgVars,
                   blockPc, loopVars, cbCount, exitBy, loginCompleted, lastFetch>>

\* Caller.WebWxStatusNotify returns; on success `go b.once.Do(...)`
WebWxStatusNotifyReturn ==
    /\ mainPc = "WebWxStatusNotify"
    /\ mainPc' = "idle"
    /\ \/ /\ ret' = TransportErr
          /\ UNCHANGED <<spawned, pc, loginCompleted>>
       \/ /\ ret' = NilErr
          /\ spawned' = spawned + 1
          /\ pc' = [pc EXCEPT ![spawned + 1] = "once"]
          /\ loginCompleted' = TRUE
    /\ UNCHANGED <<botVars, cfgVars, blockPc, lerr, resp, batch, handled, hbSeen,
                   cbCount, exitBy, lastFetch, lastKey>>

\* Bot.Logout up to Caller.Logout
LogoutCall ==
    /\ mainPc = "idle"
    /\ IF Alive
       THEN mainPc' = "Logout" /\ UNCHANGED ret
       ELSE ret' = NotLoginErr /\ UNCHANGED mainPc
    /\ UNCHANGED <<botVars, cfgVars, blockPc, loopVars, histVars>>

\* Caller.Logout returns to Bot.Logout
LogoutReturn ==
    /\ mainPc = "Logout"
    /\ mainPc' = "idle"
    /\ \/ /\ ret' = TransportErr
          /\ UNCHANGED <<self, ctxDone, cbCount, exitBy>>
       \/ /\ Exit("logout")
          /\ ret' = NilErr
    /\ UNCHANGED <<err, once, MessageErrorHandler, LoginInfo, snapVars, SyncKey, cfgVars,
                   blockPc, loopVars, loginCompleted, lastFetch, lastKey>>

\* Bot.Exit called directly
ExitCall ==
    /\ mainPc = "idle" /\ cbCount < MaxCallbacks
    /\ Exit("local")
    /\ ret' = NilErr
    /\ UNCHANGED <<err, once, MessageErrorHandler, LoginInfo, snapVars, SyncKey, cfgVars, mainPc,
                   blockPc, loopVars, loginCompleted, lastFetch, lastKey>>

\* the context handed to NewBot is cancelled by its owner
ParentCancel ==
    /\ ~ctxDone
    /\ ctxDone' = TRUE
    /\ exitBy' = "parent"
    /\ UNCHANGED <<self, err, once, MessageErrorHandler, LoginInfo, snapVars, SyncKey, cfgVars,
                   mainVars, blockPc, loopVars, cbCount, loginCompleted, lastFetch, lastKey>>

\* ------------------------------------------------------------------- Block
\* Block is called by the thread that logs in, so never in the middle of a
\* login call
BlockCall ==
    /\ blockPc = "idle" /\ mainPc \notin {"WebInit", "WebWxStatusNotify"}
    /\ blockPc' = IF ~self THEN "err" ELSE "waiting"
    /\ UNCHANGED <<botVars, cfgVars, mainVars, loopVars, histVars>>

BlockReturn ==
    /\ blockPc = "waiting" /\ ctxDone
    /\ blockPc' = "nil"
    /\ UNCHANGED <<botVars, cfgVars, mainVars, loopVars, histVars>>

\* --------------------------------------------- goroutine `go b.once.Do(...)`
\* b.once.Do(f): the admitted call sets the default handler and enters the
\* loop; a call made while f runs waits; a call made after f ended returns
OnceDo(g) ==
    /\ pc[g] = "once"
    /\ IF OnceAdmits(once)
       THEN /\ once' = "running"
            /\ MessageErrorHandler' = "default"
            /\ pc' = [pc EXCEPT ![g] = "outer"]
       ELSE /\ once = "done"
            /\ pc' = [pc EXCEPT ![g] = "returned"]
            /\ UNCHANGED <<once, MessageErrorHandler>>
    /\ UNCHANGED <<self, ctxDone, err, LoginInfo, snapVars, SyncKey, cfgVars, mainVars, blockPc,
                   spawned, lerr, resp, batch, handled, hbSeen, histVars>>

\* `err := b.syncCheck()`: enter syncCheck
CallSyncCheck(g) ==
    /\ pc[g] = "outer"
    /\ pc' = [pc EXCEPT ![g] = "alive"]
    /\ lerr' = [lerr EXCEPT ![g] = NilErr]
    /\ UNCHANGED <<botVars, cfgVars, mainVars, blockPc, spawned, resp, batch, handled, hbSeen,
                   histVars>>

\* `for b.Alive()`: issue the long-poll, or leave syncCheck with a nil error,
\* on which the caller's loop continues
AliveCheck(g) ==
    /\ pc[g] = "alive"
    /\ pc' = [pc EXCEPT ![g] = IF Alive THEN "SyncCheck" ELSE "outer"]
    /\ hbSeen' = [hbSeen EXCEPT ![g] = <<>>]
    /\ batch' = [batch EXCEPT ![g] = <<>>]
    /\ handled' = [handled EXCEPT ![g] = <<>>]
    /\ UNCHANGED <<botVars, cfgVars, mainVars, blockPc, spawned, lerr, resp, histVars>>

\* Caller.SyncCheck returns
SyncCheckReturn(g) ==
    /\ pc[g] = "SyncCheck"
    /\ \/ \E e \in PollErrs :
          /\ lerr' = [lerr EXCEPT ![g] = e]
          /\ pc' = [pc EXCEPT ![g] = "classify"]
          /\ UNCHANGED resp
       \/ \E r \in Responses :
          /\ resp' = [resp EXCEPT ![g] = r]
          /\ pc' = [pc EXCEPT ![g] = "heartbeat"]
          /\ UNCHANGED lerr
    /\ UNCHANGED <<botVars, cfgVars, mainVars, blockPc, spawned, batch, handled, hbSeen, histVars>>

\* `if b.SyncCheckCallback != nil { b.SyncCheckCallback(*resp) }`, then the
\* tests on resp.Success() and resp.NorMal(); syncMessage calls WebWxSync
Heartbeat(g) ==
    /\ pc[g] = "heartbeat"
    /\ IF ~Success(resp[g])
       THEN /\ lerr' = [lerr EXCEPT ![g] = RespErr(resp[g])]
            /\ pc' = [pc EXCEPT ![g] = "classify"]
       ELSE /\ pc' = [pc EXCEPT ![g] = IF NorMal(resp[g]) THEN "alive" ELSE "WebWxSync"]
            /\ UNCHANGED lerr
    /\ hbSeen' = [hbSeen EXCEPT ![g] = @ \o CallbackCalls(SyncCheckCallback, resp[g])]
    /\ resp' = [resp EXCEPT ![g] = NoResp]
    /\ UNCHANGED <<botVars, cfgVars, mainVars, blockPc, spawned, batch, handled, histVars>>

\* Caller.WebWxSync returns to syncMessage, and syncMessage to syncCheck
WebWxSyncReturn(g) ==
    /\ pc[g] = "WebWxSync"
    /\ \/ \E e \in FetchErrs :
          /\ lerr' = [lerr EXCEPT ![g] = e]
          /\ pc' = [pc EXCEPT ![g] = "classify"]
          /\ UNCHANGED <<SyncKey, batch, lastFetch, lastKey>>
       \/ \E k \in Keys, n \in 0..MaxBatch :
          /\ SyncKey' = StoreSyncKey(SyncKey, k)
          /\ lastFetch' = k
          /\ lastKey' = k
          /\ batch' = [batch EXCEPT ![g] = AddMsgList(n)]
          /\ pc' = [pc EXCEPT ![g] = IF MessageHandler THEN "dispatch" ELSE "alive"]
          /\ UNCHANGED lerr
    /\ UNCHANGED <<self, ctxDone, err, once, MessageErrorHandler, LoginInfo, snapVars, cfgVars,
                   mainVars, blockPc, spawned, resp, handled, hbSeen, cbCount, exitBy,
                   loginCompleted>>

\* `for _, message := range messages { ...; b.MessageHandler(message) }`
Dispatch(g) ==
    /\ pc[g] = "dispatch"
    /\ IF batch[g] # <<>>
       THEN /\ handled' = [handled EXCEPT ![g] = Handle(@, Head(batch[g]))]
            /\ batch' = [batch EXCEPT ![g] = Tail(@)]
            /\ UNCHANGED pc
       ELSE /\ pc' = [pc EXCEPT ![g] = "alive"]
            /\ UNCHANGED <<batch, handled>>
    /\ UNCHANGED <<botVars, cfgVars, mainVars, blockPc, spawned, lerr, resp, hbSeen,
                   histVars>>

\* `b.MessageErrorHandler(err)` with the default handler, up to the call of
\* Caller.Logout inside bot.Logout
Classify(g) ==
    /\ pc[g] = "classify"
    /\ IF HandlerStops(lerr[g])
       THEN pc' = [pc EXCEPT ![g] = IF Alive THEN "Logout" ELSE "seterr"]
       ELSE pc' = [pc EXCEPT ![g] = "outer"]
    /\ hbSeen' = [hbSeen EXCEPT ![g] = <<>>]
    /\ UNCHANGED <<botVars, cfgVars, mainVars, blockPc, spawned, lerr, resp, batch,
                   handled, histVars>>

\* Caller.Logout returns to the bot.Logout the handler called; the handler
\* drops Logout's result and returns false
HandlerLogoutReturn(g) ==
    /\ pc[g] = "Logout"
    /\ pc' = [pc EXCEPT ![g] = "seterr"]
    /\ \/ UNCHANGED <<self, ctxDone, cbCount, exitBy>>
       \/ Exit("stop")
    /\ UNCHANGED <<err, once, MessageErrorHandler, LoginInfo, snapVars, SyncKey, cfgVars, mainVars,
                   blockPc, spawned, lerr, resp, batch, handled, hbSeen, loginCompleted,
                   lastFetch, lastKey>>

\* `b.err = err; break`, and the function handed to once.Do returns
SetErr(g) ==
    /\ pc[g] = "seterr"
    /\ err' = lerr[g]
    /\ once' = "done"
    /\ pc' = [pc EXCEPT ![g] = "returned"]
    /\ UNCHANGED <<self, ctxDone, MessageErrorHandler, LoginInfo, snapVars, SyncKey, cfgVars,
                   mainVars, blockPc, spawned, lerr, resp, batch, handled, hbSeen, histVars>>

LoopStep(g) ==
    \/ OnceDo(g) \/ CallSyncCheck(g) \/ AliveCheck(g) \/ SyncCheckReturn(g)
    \/ Heartbeat(g) \/ WebWxSyncReturn(g) \/ Dispatch(g)
    \/ Classify(g) \/ HandlerLogoutReturn(g) \/ SetErr(g)

LoopNext == \E g \in G : LoopStep(g)

Next ==
    \/ HandleLogin \/ WebInitReturn \/ WebWxStatusNotifyReturn
    \/ LogoutCall \/ LogoutReturn \/ ExitCall \/ ParentCancel
    \/ BlockCall \/ BlockReturn
    \/ LoopNext

Spec == Init /\ [][Next]_vars

\* The goroutines are scheduled and every transport call returns (the
\* transport bounds the long-poll by its protocol timeout).
FairSpec == Spec /\ WF_vars(LoopNext)

\* ------------------------------------------------------- dump and reload
\* The snapshot operations on their own, from any values of the session
\* fields, on a Bot with or without a hot-reload storage; HandleLogin is the
\* login's own dump.
lifeVars == <<self, ctxDone, err, once, MessageErrorHandler, cfgVars, mainPc, blockPc,
              loopVars, histVars>>

DumpInit ==
    /\ InitLifecycle
    /\ LoginInfo \in Vals /\ SyncKey \in 0..MaxKey
    /\ Request \in Requests /\ deviceId = Request.DeviceID
    /\ uuid \in Vals /\ Domain \in Vals /\ Jar \in Vals
    /\ hotReloadStorage \in {NoStorage, EmptyStorage}

\* Bot.DumpHotReloadStorage
DumpHotReloadStorage ==
    /\ mainPc = "idle"
    /\ IF ~hotReloadStorage.configured
         THEN /\ ret' = "HotReloadStorage can not be nil"
              /\ UNCHANGED <<hotReloadStorage, atDump, reloaded>>
         ELSE \/ /\ ret' = TransportErr       \* the writer failed
                 /\ UNCHANGED <<hotReloadStorage, atDump, reloaded>>
              \/ /\ ret' = NilErr
                 /\ hotReloadStorage' =
                        [hotReloadStorage EXCEPT !.data =
                            <<DumpTo(Request, Jar, LoginInfo, Domain, uuid)>>]
                 /\ atDump' = Fields(Request, LoginInfo, Domain, uuid, SyncKey)
                 /\ reloaded' = FALSE
    /\ UNCHANGED <<lifeVars, LoginInfo, SyncKey, Request, deviceId, uuid, Domain, Jar>>

\* Bot.reload
reload ==
    /\ mainPc = "idle"
    /\ IF ~hotReloadStorage.configured
         THEN /\ ret' = "hotReloadStorage is nil"
              /\ UNCHANGED <<Jar, LoginInfo, Request, Domain, uuid, reloaded>>
         ELSE IF hotReloadStorage.data = <<>>
         THEN /\ ret' = "EOF"                  \* Decode finds no value
              /\ UNCHANGED <<Jar, LoginInfo, Request, Domain, uuid, reloaded>>
         ELSE LET item == Decode(hotReloadStorage.data[1])
              IN /\ Jar' = item.Jar
                 /\ LoginInfo' = item.LoginInfo
                 /\ Request' = item.BaseRequest
                 /\ Domain' = item.WechatDomain
                 /\ uuid' = item.UUID
                 /\ ret' = NilErr
                 /\ reloaded' = TRUE
    /\ UNCHANGED <<lifeVars, SyncKey, deviceId, hotReloadStorage, atDump>>

\* NewBot in a later process, which is handed the storage of the earlier one
NewBotOnStorage ==
    /\ mainPc = "idle"
    /\ LoginInfo' = 0 /\ SyncKey' = 0
    /\ Request' = NoRequest /\ deviceId' = 0 /\ uuid' = 0 /\ Domain' = 0 /\ Jar' = 0
    /\ ret' = NilErr
    /\ reloaded' = FALSE
    /\ UNCHANGED <<lifeVars, hotReloadStorage, atDump>>

DumpNext == DumpHotReloadStorage \/ reload \/ NewBotOnStorage \/ HandleLogin

DumpSpec == DumpInit /\ [][DumpNext]_vars

\* ------------------------------------------------------------------ claims
InLoop == {g \in G : pc[g] \in LoopPcs}
StoppedBy(g) == pc[g] \in {"seterr", "returned"} /\ lerr[g] # NilErr

\* C1: over any sequence of WebInit completions on one Bot, at most one
\* goroutine ever runs the long-poll loop: one runs it while b.once is
\* running, none before that and none after it has returned.
C1_SingleLoop ==
    /\ Cardinality(InLoop) <= 1
    /\ once = "running" <=> InLoop # {}
C1_Witness ==
    /\ spawned >= 2 /\ Alive
    /\ \E g, h \in G : pc[g] = "SyncCheck" /\ pc[h] = "once"

\* C2: whenever the default handler has returned false (stop) for a loop
\* error, the cancellation signal has fired (so that a pending Block
\* returns), also when Caller.Logout returned an error.
C2_StopReachesExited == \A g \in G : StoppedBy(g) => ctxDone

\* C3: after the cancellation signal has fired (here: while a long-poll of
\* the running sync loop is in flight), the goroutine running the sync loop
\* eventually leaves the loop and runs no further iteration.
C3_LoopTerminates ==
    (ctxDone /\ \E g \in G : pc[g] = "SyncCheck") ~> (InLoop = {})

\* C4 (as claimed): once a fetch has succeeded, the Sync Cursor never holds a
\* value other than the one the most recent successful fetch returned.
C4_CursorIsLastFetch == lastFetch # 0 => SyncKey = lastFetch

\* C4 (amended): the Sync Cursor always holds the value returned by the most
\* recent successful WebWxSync or Caller.WebInit, whichever came last; it is
\* stored when the fetch returns, with or without a MessageHandler, hence
\* before the handler sees any message of that batch.
C4_CursorIsLastKey == SyncKey = lastKey
C4_Witness ==
    /\ lastFetch # 0 /\ SyncKey = lastFetch
    /\ \E g \in G : pc[g] = "dispatch" /\ batch[g] # <<>>

\* C5: once Block has returned because the default handler stopped the loop
\* on a fatal status, CrashReason returns that error (non-nil).
C5_CrashReasonAfterBlock ==
    (blockPc = "nil" /\ exitBy = "stop") =>
        /\ err # NilErr
        /\ \E g \in G : StoppedBy(g) /\ err = lerr[g]

\* C6: when the cancellation signal was fired by a direct Exit call,
\* CrashReason returns nil in every later state.
C6_CleanExitNilReason == exitBy = "local" => err = NilErr

\* C7: a Logout called while Online leaves the session Exited when it
\* returns, whether Caller.Logout succeeded or failed.
C7_LogoutLeavesExited ==
    [][(LogoutReturn /\ loginCompleted) => (ctxDone' /\ ~self')]_vars

\* C8: a Logout called while no login has completed, or after the
\* cancellation signal fired, returns an error, does not call Caller.Logout
\* and changes no session state.
C8_LogoutGuard ==
    [][(LogoutCall /\ (~loginCompleted \/ ctxDone)) =>
          /\ ret' = NotLoginErr
          /\ mainPc' = "idle"
          /\ UNCHANGED <<botVars, loopVars, histVars>>]_vars

\* C9: Block called before any login has completed returns an error without
\* suspending, and a Block that returned nil did so after the cancellation
\* signal fired.
C9_Block ==
    /\ blockPc = "waiting" => loginCompleted
    /\ blockPc = "nil" => ctxDone

\* C10: the default handler returns false (stop) for exactly failedLoginCheck,
\* cookieInvalid and failedLoginWarn, and true (continue) for every other
\* error, plain transport errors and other Ret values included.
C10_StopsExactlyOnFatal ==
    [][\A g \in G : Classify(g) =>
          IF lerr[g] \in {failedLoginCheck, cookieInvalid, failedLoginWarn}
          THEN pc'[g] \in {"Logout", "seterr"}
          ELSE pc'[g] = "outer"]_vars
C10_Witness ==
    \E g \in G : pc[g] = "Logout" /\ lerr[g] = failedLoginWarn

\* C11: once reload has decoded a snapshot written by DumpTo, the Bot's
\* BaseRequest, LoginInfo, service domain and login UUID are the ones the Bot
\* had when the snapshot was written.
C11_RoundTrip ==
    reloaded =>
        /\ Request = atDump.Request
        /\ LoginInfo = atDump.LoginInfo
        /\ Domain = atDump.Domain
        /\ uuid = atDump.uuid

\* a fresh Bot has reloaded a snapshot of non-zero, pairwise told-apart fields
C11_Witness ==
    /\ reloaded
    /\ Request # NoRequest /\ LoginInfo # 0 /\ Domain # 0 /\ uuid # 0
    /\ Domain # uuid /\ LoginInfo # Request.Info

\* C12: once reload has decoded a snapshot, the Bot's Sync Cursor is the one
\* the Bot held when the snapshot was written.
C12_CursorRestored == reloaded => SyncKey = atDump.SyncKey

\* C13: Exited is terminal: from a state in which the cancellation signal
\* has fired, every step (a login on the same Bot included) leads to a state
\* in which the signal is still fired and Alive returns false.
C13_ExitedIsTerminal == [][ctxDone => (ctxDone' /\ ~Alive')]_vars

\* a login has gone through on a Bot that Exit had cancelled before
C13_Witness == ctxDone /\ exitBy = "local" /\ self /\ loginCompleted /\ mainPc = "idle"

\* C14: outside a login call, Alive returns true only when some login's
\* handshake, initialization exchange and status notification all succeeded;
\* after a login call that returned an error Alive is false.
C14_OnlineOnlyAfterLogin == (mainPc = "idle" /\ Alive) => loginCompleted

\* C15: the default classifier never has the transport's Logout call in
\* flight: it tears the session down without a remote round trip.
C15_NoRemoteLogout == \A g \in G : pc[g] # "Logout"

\* C20: over all interleavings of Exit, Logout and classifier teardowns the
\* logout-notification callback runs at most once.
C20_CallbackAtMostOnce == cbCount <= 1

\* the order of an iteration of syncCheck's loop: the normal selector leads
\* straight back to the Alive test, any other selector to one WebWxSync; a
\* long-poll is issued only from the Alive test, a fetch only after the
\* heartbeat step, a dispatch only after a fetch, and MessageHandler runs
\* only in the dispatch, on the messages of the batch in their order
C16_Order(g) ==
    /\ (pc[g] = "heartbeat" /\ pc'[g] # "heartbeat" /\ NorMal(resp[g]))
          => (pc'[g] = "alive" /\ batch'[g] = <<>> /\ handled'[g] = <<>>)
    /\ (pc[g] = "heartbeat" /\ pc'[g] # "heartbeat" /\ Success(resp[g]) /\ ~NorMal(resp[g]))
          => pc'[g] = "WebWxSync"
    /\ (pc'[g] = "WebWxSync" /\ pc[g] # "WebWxSync") => pc[g] = "heartbeat"
    /\ (pc'[g] = "dispatch" /\ pc[g] # "dispatch") => pc[g] = "WebWxSync"
    /\ (pc'[g] = "SyncCheck" /\ pc[g] # "SyncCheck") => pc[g] = "alive"
    /\ (handled'[g] # handled[g] /\ handled'[g] # <<>>) => pc[g] = "dispatch"
    /\ handled[g] \o batch[g] = AddMsgList(Len(handled[g]) + Len(batch[g]))

\* every returned message has had its one handler call
C16_AllHandled(g) == batch[g] = <<>> /\ handled[g] = AddMsgList(Len(handled[g]))

\* C16 (as stated): success with the normal selector is followed by the next
\* long-poll with no fetch and no handler call; success with another selector
\* by exactly one fetch, then one handler call per returned event in arrival
\* order, and the next long-poll is issued only after all of them.
C16_HandlerPerEvent ==
    [][\A g \in G :
          /\ C16_Order(g)
          /\ (pc[g] = "alive" /\ pc'[g] = "SyncCheck") => C16_AllHandled(g)]_vars

\* C16 (amended): as above when a MessageHandler is configured; with none,
\* the returned events are dropped and no handler call is made.
C16_HandlerPerEventIfConfigured ==
    [][\A g \in G :
          /\ C16_Order(g)
          /\ (pc[g] = "alive" /\ pc'[g] = "SyncCheck") =>
                IF MessageHandler THEN C16_AllHandled(g) ELSE handled[g] = <<>>]_vars

\* a batch of two messages has been handled and the next Alive test is due
C16_Witness ==
    \E g \in G : pc[g] = "alive" /\ Alive /\ batch[g] = <<>> /\ handled[g] = <<1, 2>>

C18_NonFatalRetries ==
    [][\A g \in G :
          /\ ( /\ pc[g] = "classify" /\ pc'[g] # "classify"
               /\ lerr[g] \notin {failedLoginCheck, cookieInvalid, failedLoginWarn} )
                => (pc'[g] = "outer" /\ UNCHANGED <<self, ctxDone, err, exitBy, cbCount>>)
          /\ (pc[g] = "outer" /\ pc'[g] # "outer") => pc'[g] = "alive"
          /\ (pc[g] = "alive" /\ pc'[g] # "alive" /\ Alive) => pc'[g] = "SyncCheck"]_vars

\* the handler has just let a transport error pass on an Online session
C18_Witness ==
    /\ Alive /\ err = NilErr /\ lastFetch # 0
    /\ \E g \in G : pc[g] = "outer" /\ lerr[g] = TransportErr

\* C19: when SyncCheckCallback is configured, in every state in which the
\* loop acts on a returned poll signal (classifies its status, fetches,
\* dispatches) the callback has been invoked exactly once in this iteration,
\* with that signal; a long-poll that failed without a signal has no call.
C19_HeartbeatOnce ==
    \A g \in G :
        IF ~SyncCheckCallback THEN hbSeen[g] = <<>>
        ELSE /\ Len(hbSeen[g]) <= 1
             /\ pc[g] \in {"SyncCheck", "heartbeat"} => hbSeen[g] = <<>>
             /\ pc[g] = "alive" => \A i \in DOMAIN hbSeen[g] : Success(hbSeen[g][i])
             /\ pc[g] \in {"WebWxSync", "dispatch"} =>
                   /\ Len(hbSeen[g]) = 1
                   /\ Success(hbSeen[g][1]) /\ ~NorMal(hbSeen[g][1])
             /\ pc[g] = "classify" =>
                   \/ hbSeen[g] = <<>> /\ lerr[g] \in PollErrs
                   \/ /\ Len(hbSeen[g]) = 1
                      /\ ~Success(hbSeen[g][1]) /\ lerr[g] = RespErr(hbSeen[g][1])
                   \/ /\ Len(hbSeen[g]) = 1
                      /\ Success(hbSeen[g][1]) /\ ~NorMal(hbSeen[g][1])
                      /\ lerr[g] \in FetchErrs

\* a poll signal with a failure status is being classified after its callback
C19_Witness ==
    /\ SyncCheckCallback
    /\ \E g \in G : /\ pc[g] = "classify" /\ Len(hbSeen[g]) = 1
                     /\ ~Success(hbSeen[g][1])
====
